---- MODULE Spec2Model ----
(***************************************************************************)
(* arpscan: the per-interface ARP scan (run, scanIface, readARP, writeARP, *)
(* ips) as a state machine.  Every goroutine is a process of the model;    *)
(* the shared state is the cancellable context, the WaitGroup of run, the  *)
(* pcap handle of each interface and the life of the process itself.       *)
(*                                                                         *)
(* External collaborators (package net, pcap, gopacket, the ticker, the OS *)
(* signal) are inputs: their results are drawn with \E in the action that  *)
(* makes the call.  The packet channel of a handle delivers frames only    *)
(* while the handle is open.                                               *)
(***************************************************************************)
EXTENDS Integers, Sequences, FiniteSets, TLC

\* Number of interfaces getInterfaces returns.
NumIfaces == 2

Ifaces == 1..NumIfaces

None == "none"

\* a step that neither writes a frame nor takes one
NoOut == [kind |-> "none"]

(***************************************************************************)
(* Addresses.  net.IP, net.IPMask and net.HardwareAddr are byte slices. A  *)
(* uint32 is kept as two 16-bit halves so that no intermediate value       *)
(* leaves the range of the checker's integers.                             *)
(***************************************************************************)
\* new(net.IPNet): IP and Mask are nil slices
NilNet == [IP |-> <<>>, Mask |-> <<>>]

\* 192.168.1.10/30
Net30 == [IP |-> <<192, 168, 1, 10>>, Mask |-> <<255, 255, 255, 252>>]

\* 10.0.0.7/32, a host address
Net32 == [IP |-> <<10, 0, 0, 7>>, Mask |-> <<255, 255, 255, 255>>]

\* what the address loop of scanIface can leave in addr
AddrChoices == {NilNet, Net30}

\* 10.0.0.6/31, a point-to-point link
Net31 == [IP |-> <<10, 0, 0, 6>>, Mask |-> <<255, 255, 255, 254>>]

\* the same on a host whose interfaces all have an IPv4 address: links and
\* host addresses
HostChoices == {Net31, Net32}

HwOf(i) == <<2, 0, 0, 0, 0, i>>

RemoteHw == <<2, 0, 0, 0, 0, 9>>

RemoteIP == <<192, 168, 1, 9>>

BroadcastHw == <<255, 255, 255, 255, 255, 255>>

ZeroHw == <<0, 0, 0, 0, 0, 0>>

ARPRequest == 1

ARPReply == 2

Uint32(b) == [hi |-> b[1] * 256 + b[2], lo |-> b[3] * 256 + b[4]]

PutUint32(n) == <<n.hi \div 256, n.hi % 256, n.lo \div 256, n.lo % 256>>

RECURSIVE AndBits(_, _, _)
AndBits(a, b, w) ==
  IF w = 0 THEN 0
  ELSE (IF a % 2 = 1 /\ b % 2 = 1 THEN 1 ELSE 0)
       + 2 * AndBits(a \div 2, b \div 2, w - 1)

And32(a, b) == [hi |-> AndBits(a.hi, b.hi, 16), lo |-> AndBits(a.lo, b.lo, 16)]

\* n++ on a uint32 (wraps at 2^32)
Inc32(n) ==
  IF n.lo = 65535 THEN [hi |-> (n.hi + 1) % 65536, lo |-> 0]
  ELSE [hi |-> n.hi, lo |-> n.lo + 1]

\* n < 0xffffffff
BelowMax32OffByOne(n) == ~(n.hi = 65535 /\ n.lo >= 65534)

BelowMax32(n) == ~(n.hi = 65535 /\ n.lo = 65535)

RECURSIVE ipsLoop(_, _, _)
ipsLoop(num, mask, out) ==
  IF BelowMax32(mask)
  THEN ipsLoop(Inc32(num), Inc32(mask), Append(out, PutUint32(num)))
  ELSE out

\* binary.BigEndian.Uint32 indexes b[3]: a slice shorter than 4 bytes panics
ipsPanics(n) == Len(n.IP) < 4 \/ Len(n.Mask) < 4

ipsNoMask(n) == ipsLoop(Uint32(n.IP), Uint32(n.Mask), <<>>)

\* a variant that returns the address itself for a network without a host part
ipsHostIncluded(n) ==
  IF BelowMax32(Uint32(n.Mask))
  THEN ipsLoop(And32(Uint32(n.IP), Uint32(n.Mask)), Uint32(n.Mask), <<>>)
  ELSE <<n.IP>>

ips(n) == ipsLoop(And32(Uint32(n.IP), Uint32(n.Mask)), Uint32(n.Mask), <<>>)

(***************************************************************************)
(* Frames.                                                                 *)
(***************************************************************************)
\* the layers writeARP sets up for candidate ip: a request whose target is
\* the sender's own pair
RequestFrameToSelf(i, a, ip) ==
  [arp |-> TRUE, ethSrc |-> HwOf(i), ethDst |-> BroadcastHw, op |-> ARPRequest,
   sha |-> HwOf(i), spa |-> a.IP, tha |-> HwOf(i), tpa |-> a.IP]

\* the layers writeARP sets up for candidate ip
RequestFrame(i, a, ip) ==
  [arp |-> TRUE, ethSrc |-> HwOf(i), ethDst |-> BroadcastHw, op |-> ARPRequest,
   sha |-> HwOf(i), spa |-> a.IP, tha |-> ZeroHw, tpa |-> ip]

\* layers.EthernetTypeARP and layers.EthernetTypeIPv4 on the wire, the
\* wire value of layers.LinkTypeEthernet
EthernetTypeARP == <<8, 6>>
EthernetTypeIPv4 == <<8, 0>>
LinkTypeEthernet == <<0, 1>>

\* gopacket.SerializeLayers(buf, opts, &eth, &arp): the 14 bytes of the
\* Ethernet header, then the ARP payload; FixLengths writes the address
\* sizes from the addresses
SerializeLayers(f) ==
  f.ethDst \o f.ethSrc \o EthernetTypeARP
    \o LinkTypeEthernet \o EthernetTypeIPv4
    \o <<Len(f.sha), Len(f.spa), f.op \div 256, f.op % 256>>
    \o f.sha \o f.spa \o f.tha \o f.tpa

\* what buf.Bytes() holds after SerializeLayers failed, b being the bytes it
\* would have had: the layers are written last to first, so the room of the
\* ARP payload is there and the Ethernet header is not
FailedBuf(b) == SubSeq(b, 15, Len(b))

\* the packet source decoding a frame, and packet.Layer(layers.LayerTypeARP)
\* with the fields readARP looks at
DecodeARP(b) ==
  IF Len(b) < 22 \/ SubSeq(b, 13, 14) # EthernetTypeARP
  THEN [arp |-> FALSE, ethSrc |-> <<>>, ethDst |-> <<>>, op |-> 0,
        sha |-> <<>>, spa |-> <<>>, tha |-> <<>>, tpa |-> <<>>]
  ELSE LET hl == b[19]
           pl == b[20]
       IN [arp |-> TRUE, ethSrc |-> SubSeq(b, 7, 12), ethDst |-> SubSeq(b, 1, 6),
           op |-> b[21] * 256 + b[22],
           sha |-> SubSeq(b, 23, 22 + hl),
           spa |-> SubSeq(b, 23 + hl, 22 + hl + pl),
           tha |-> SubSeq(b, 23 + hl + pl, 22 + 2 * hl + pl),
           tpa |-> SubSeq(b, 23 + 2 * hl + pl, 22 + 2 * hl + 2 * pl)]

NonARPFrame(src) ==
  [arp |-> FALSE, ethSrc |-> src, ethDst |-> BroadcastHw, op |-> 0,
   sha |-> <<>>, spa |-> <<>>, tha |-> <<>>, tpa |-> <<>>]

ARPFrame(o, src) ==
  [arp |-> TRUE, ethSrc |-> src, ethDst |-> BroadcastHw, op |-> o,
   sha |-> src, spa |-> RemoteIP, tha |-> ZeroHw, tpa |-> RemoteIP]

\* frames the packet channel of interface i can deliver
InFrames(i) ==
  {NonARPFrame(RemoteHw)}
    \cup {ARPFrame(o, s) : o \in {ARPRequest, ARPReply}, s \in {HwOf(i), RemoteHw}}

\* readARP: the frame passes both filters and is logged as found
IsDiscoveryNoSelfCheck(i, f) == f.arp /\ f.op = ARPReply

IsDiscovery(i, f) == f.arp /\ ~(f.op # ARPReply \/ HwOf(i) = f.sha)

\* readARP: a frame that is not logged ends in `continue`
AfterFrameStopOnDiscard(i, f) == IF IsDiscovery(i, f) THEN "running" ELSE "stopped"

AfterFrame(i, f) == "running"

(***************************************************************************)
(* State.                                                                  *)
(***************************************************************************)
VARIABLES
  cancelled,  \* ctx.Done() is closed
  proc,       \* "running", "exited" (main returned), "crashed" (a panic)
  runPc,      \* run: "loop", "wait", "returned"
  runIdx,     \* run: interfaces already handed to a scanIface goroutine
  wg,         \* counter of the WaitGroup
  dpc,        \* scanIface: "unborn", "start", "select", "loop", "write", "stopped"
  why,        \* scanIface: why it returned
  handle,     \* pcap handle: "none", "open", "closed"
  addr,       \* scanIface: addr, the IPv4 network found for the interface
  cands,      \* writeARP: the slice ips(addr) being ranged over
  idx,        \* writeARP: position in cands = writes done in this sweep
  lpc,        \* readARP: "unborn", "running", "stopped"
  swept,      \* a sweep (a call of writeARP) has started on the interface
  cphase,     \* the Driver against the cancellation: "none" (not cancelled),
              \* "pre" (cancelled before its first sweep), "mid" (the sweep
              \* the cancellation interrupted is still running), "post"
  cn,         \* in phase "mid": writes of the sweep done before the cancellation
  out,        \* what the last step put on the wire or took from it
  sent,       \* writeARP: the candidates WritePacketData was called for in
              \* the running sweep, or in the last one when it ran to its end
  started,    \* per interface: handles opened, readARP and scanIface
              \* goroutines started so far
  pin,        \* a call of ips on its own: the argument
  pres        \* a call of ips on its own: the result

vars == <<cancelled, proc, runPc, runIdx, wg, dpc, why, handle, addr, cands,
          idx, lpc, swept, cphase, cn, out, sent, started, pin, pres>>

\* the variables of a call of ips on its own
pureVars == <<pin, pres>>

NoCall == [done |-> FALSE, out |-> <<>>]

NoneStarted == [opens |-> 0, listeners |-> 0, drivers |-> 0]

Init ==
  /\ cancelled = FALSE
  /\ proc = "running"
  /\ runPc = "loop"
  /\ runIdx = 0
  /\ wg = 0
  /\ dpc = [i \in Ifaces |-> "unborn"]
  /\ why = [i \in Ifaces |-> None]
  /\ handle = [i \in Ifaces |-> "none"]
  /\ addr = [i \in Ifaces |-> NilNet]
  /\ cands = [i \in Ifaces |-> <<>>]
  /\ idx = [i \in Ifaces |-> 0]
  /\ lpc = [i \in Ifaces |-> "unborn"]
  /\ swept = [i \in Ifaces |-> FALSE]
  /\ cphase = [i \in Ifaces |-> None]
  /\ cn = [i \in Ifaces |-> 0]
  /\ out = NoOut
  /\ sent = [i \in Ifaces |-> <<>>]
  /\ started = [i \in Ifaces |-> NoneStarted]
  /\ pin = NilNet
  /\ pres = NoCall

Alive == proc = "running"

(***************************************************************************)
(* run                                                                     *)
(***************************************************************************)
\* wg.Add(1); go scanIface(ctx, wg, iface) -- and leaving the loop
RunSpawn ==
  /\ Alive /\ runPc = "loop"
  /\ IF runIdx < NumIfaces
     THEN /\ wg' = wg + 1
          /\ runIdx' = runIdx + 1
          /\ dpc' = [dpc EXCEPT ![runIdx + 1] = "start"]
          /\ started' = [started EXCEPT ![runIdx + 1].drivers = @ + 1]
          /\ UNCHANGED runPc
     ELSE /\ runPc' = "wait"
          /\ UNCHANGED <<wg, runIdx, dpc, started>>
  /\ UNCHANGED <<cancelled, proc, why, handle, addr, cands, idx, lpc, swept,
                 cphase, cn, sent, pureVars>>
  /\ out' = NoOut

\* wg.Wait() returns when the counter is zero; run and main return
RunWait ==
  /\ Alive /\ runPc = "wait"
  /\ wg = 0
  /\ runPc' = "returned"
  /\ proc' = "exited"
  /\ UNCHANGED <<cancelled, runIdx, wg, dpc, why, handle, addr, cands, idx, lpc,
                 swept, cphase, cn, sent, started, pureVars>>
  /\ out' = NoOut

(***************************************************************************)
(* The signal goroutine of GetApplicationContext: cancelFunc()             *)
(***************************************************************************)
PhaseOf(i) ==
  IF dpc[i] \in {"loop", "write"} THEN "mid"
  ELSE IF dpc[i] \in {"unborn", "start", "select"} /\ ~swept[i] THEN "pre"
  ELSE "post"

Cancel ==
  /\ Alive /\ ~cancelled
  /\ cancelled' = TRUE
  /\ cphase' = [i \in Ifaces |-> PhaseOf(i)]
  /\ cn' = [i \in Ifaces |-> IF PhaseOf(i) = "mid" THEN idx[i] ELSE 0]
  /\ UNCHANGED <<proc, runPc, runIdx, wg, dpc, why, handle, addr, cands, idx,
                 lpc, swept, sent, started, pureVars>>
  /\ out' = NoOut

(***************************************************************************)
(* wg.Done(): a counter driven below zero panics                           *)
(***************************************************************************)
WgDone ==
  /\ wg' = wg - 1
  /\ proc' = IF wg - 1 < 0 THEN "crashed" ELSE proc

\* writeARP returns: its locals are gone, the sweep is over
SweepOver(i) ==
  /\ cands' = [cands EXCEPT ![i] = <<>>]
  /\ idx' = [idx EXCEPT ![i] = 0]
  /\ cphase' = [cphase EXCEPT ![i] = IF @ = "mid" THEN "post" ELSE @]
  /\ cn' = [cn EXCEPT ![i] = 0]

\* scanIface returns for reason r: deferred handle.Close() (when the handle
\* was opened) and deferred wg.Done()
ScanReturn(i, r, h) ==
  /\ dpc' = [dpc EXCEPT ![i] = "stopped"]
  /\ why' = [why EXCEPT ![i] = r]
  /\ handle' = [handle EXCEPT ![i] = IF h = "open" THEN "closed" ELSE h]
  /\ sent' = [sent EXCEPT ![i] = <<>>]
  /\ SweepOver(i)
  /\ WgDone

(***************************************************************************)
(* scanIface                                                               *)
(***************************************************************************)
SetupOutcomes == {"addrErr", "noAddr", "openErr", "opened"}

\* lines 93-129: iface.Addrs(), the address loop, pcap.OpenLive, go readARP
ScanSetupFrom(i, choices) ==
  /\ Alive /\ dpc[i] = "start"
  /\ \E o \in SetupOutcomes, a \in choices :
       IF o = "opened"
       THEN /\ addr' = [addr EXCEPT ![i] = a]
            /\ handle' = [handle EXCEPT ![i] = "open"]
            /\ lpc' = [lpc EXCEPT ![i] = "running"]
            /\ dpc' = [dpc EXCEPT ![i] = "select"]
            /\ started' = [started EXCEPT ![i].opens = @ + 1,
                                          ![i].listeners = @ + 1]
            /\ UNCHANGED <<why, wg, proc, cands, idx, cphase, cn, sent>>
       ELSE /\ addr' = [addr EXCEPT ![i] = IF o = "openErr" THEN a ELSE NilNet]
            /\ a = NilNet \/ o = "openErr"
            /\ ScanReturn(i, o, "none")
            /\ UNCHANGED <<lpc, started>>
  /\ UNCHANGED <<cancelled, runPc, runIdx, swept, pureVars>>
  /\ out' = NoOut

ScanSetup(i) == ScanSetupFrom(i, AddrChoices)

HostScanSetup(i) == ScanSetupFrom(i, HostChoices)

\* select: case <-ctx.Done()
SelectDone(i) ==
  /\ Alive /\ dpc[i] = "select"
  /\ cancelled
  /\ ScanReturn(i, "cancel", handle[i])
  /\ UNCHANGED <<cancelled, runPc, runIdx, addr, lpc, swept, started, pureVars>>
  /\ out' = NoOut

\* the loop of scanIface starts no goroutine: readARP was started once,
\* before the loop
ListenersAfterTickRestart(i) == started[i].listeners + 1

ListenersAfterTick(i) == started[i].listeners

\* select: case <-ticker.C -- writeARP is entered and ips(addr) evaluated
SelectTick(i) ==
  /\ Alive /\ dpc[i] = "select"
  /\ swept' = [swept EXCEPT ![i] = TRUE]
  /\ started' = [started EXCEPT ![i].listeners = ListenersAfterTick(i)]
  /\ IF ipsPanics(addr[i])
     THEN /\ proc' = "crashed"
          /\ UNCHANGED <<dpc, cands, idx, sent>>
     ELSE /\ cands' = [cands EXCEPT ![i] = ips(addr[i])]
          /\ idx' = [idx EXCEPT ![i] = 0]
          /\ sent' = [sent EXCEPT ![i] = <<>>]
          /\ dpc' = [dpc EXCEPT ![i] = "loop"]
          /\ UNCHANGED proc
  /\ UNCHANGED <<cancelled, runPc, runIdx, wg, why, handle, addr, lpc, cphase,
                 cn, pureVars>>
  /\ out' = NoOut

(***************************************************************************)
(* writeARP                                                                *)
(***************************************************************************)
\* the select at the head of the loop body: case <-ctx.Done()
WriteStopsNoCheck(i) == FALSE

WriteStopsAfterFirst(i) == cancelled /\ idx[i] > 0

WriteStopsOnlyAtStart(i) == cancelled /\ idx[i] = 0

WriteStops(i) == cancelled

\* loop head: range exhausted (return nil), cancelled (return
\* context.Canceled, scanIface returns), or go on to serialize and write
WriteCheck(i) ==
  /\ Alive /\ dpc[i] = "loop"
  /\ IF idx[i] >= Len(cands[i])
     THEN /\ dpc' = [dpc EXCEPT ![i] = "select"]
          /\ SweepOver(i)
          /\ UNCHANGED <<why, handle, wg, proc, sent>>
     ELSE IF WriteStops(i)
     THEN ScanReturn(i, "canceled", handle[i])
     ELSE /\ dpc' = [dpc EXCEPT ![i] = "write"]
          /\ UNCHANGED <<why, handle, wg, proc, cands, idx, cphase, cn, sent>>
  /\ UNCHANGED <<cancelled, runPc, runIdx, addr, lpc, swept, started, pureVars>>
  /\ out' = NoOut

\* for _, ip := range ips(addr): the element of this iteration
CandAtFirst(i) == cands[i][1]

CandAt(i) == cands[i][idx[i] + 1]

\* for _, ip := range ips(addr): the position after this iteration
NextIdxSkip(i) == idx[i] + 2

NextIdx(i) == idx[i] + 1

\* arp.DstProtAddress = ip, gopacket.SerializeLayers (its error is only
\* logged), handle.WritePacketData(buf.Bytes()).  The event records the
\* candidate, its position in the sweep, the bytes handed to the handle, and
\* how many writes the sweep has made since the cancellation (this one
\* included) when the cancellation came first.
WritePacket(i) ==
  /\ Alive /\ dpc[i] = "write"
  /\ LET b == SerializeLayers(RequestFrame(i, addr[i], CandAt(i))) IN
     \E serErr \in BOOLEAN, writeErr \in BOOLEAN :
       /\ out' = [kind |-> "write", iface |-> i, tpa |-> CandAt(i),
                  serErr |-> serErr, writeErr |-> writeErr,
                  pos |-> idx[i] + 1,
                  data |-> IF serErr THEN FailedBuf(b) ELSE b,
                  handle |-> handle[i],
                  phase |-> cphase[i],
                  since |-> IF cancelled THEN idx[i] - cn[i] + 1 ELSE 0]
       /\ IF writeErr
          THEN ScanReturn(i, "writeErr", handle[i])
          ELSE /\ idx' = [idx EXCEPT ![i] = NextIdx(i)]
               /\ sent' = [sent EXCEPT ![i] = Append(@, CandAt(i))]
               /\ dpc' = [dpc EXCEPT ![i] = "loop"]
               /\ UNCHANGED <<why, handle, wg, proc, cands, cphase, cn>>
  /\ UNCHANGED <<cancelled, runPc, runIdx, addr, lpc, swept, started, pureVars>>

(***************************************************************************)
(* readARP                                                                 *)
(***************************************************************************)
\* select: case <-ctx.Done() -- return, deferred wg.Done()
ReadDone(i) ==
  /\ Alive /\ lpc[i] = "running"
  /\ cancelled
  /\ lpc' = [lpc EXCEPT ![i] = "stopped"]
  /\ WgDone
  /\ UNCHANGED <<cancelled, runPc, runIdx, dpc, why, handle, addr, cands, idx,
                 swept, cphase, cn, sent, started, pureVars>>
  /\ out' = NoOut

\* select: case packet = <-in
ReadPacket(i) ==
  /\ Alive /\ lpc[i] = "running"
  /\ handle[i] = "open"
  /\ \E f \in InFrames(i) :
       /\ out' = [kind |-> "rx", iface |-> i, frame |-> f,
                  found |-> IsDiscovery(i, f)]
       /\ lpc' = [lpc EXCEPT ![i] = AfterFrame(i, f)]
  /\ UNCHANGED <<cancelled, proc, runPc, runIdx, wg, dpc, why, handle, addr,
                 cands, idx, swept, cphase, cn, sent, started, pureVars>>

Next ==
  \/ RunSpawn
  \/ RunWait
  \/ Cancel
  \/ \E i \in Ifaces : ScanSetup(i)
  \/ \E i \in Ifaces : SelectDone(i)
  \/ \E i \in Ifaces : SelectTick(i)
  \/ \E i \in Ifaces : WriteCheck(i)
  \/ \E i \in Ifaces : WritePacket(i)
  \/ \E i \in Ifaces : ReadDone(i)
  \/ \E i \in Ifaces : ReadPacket(i)

Spec == Init /\ [][Next]_vars

(***************************************************************************)
(* Scheduling.  The Go scheduler runs every runnable goroutine, and a      *)
(* select with several ready cases picks one at random, so a case that is  *)
(* ready again and again is taken in the end.                              *)
(***************************************************************************)
Fairness ==
  /\ WF_vars(RunSpawn)
  /\ WF_vars(RunWait)
  /\ \A i \in Ifaces :
       /\ WF_vars(ScanSetup(i))
       /\ SF_vars(SelectDone(i))
       /\ WF_vars(WriteCheck(i))
       /\ WF_vars(WritePacket(i))
       /\ SF_vars(ReadDone(i))

FairSpec == Spec /\ Fairness

\* the same program on a host of HostChoices
HostNext ==
  \/ RunSpawn
  \/ RunWait
  \/ Cancel
  \/ \E i \in Ifaces : HostScanSetup(i)
  \/ \E i \in Ifaces : SelectDone(i)
  \/ \E i \in Ifaces : SelectTick(i)
  \/ \E i \in Ifaces : WriteCheck(i)
  \/ \E i \in Ifaces : WritePacket(i)
  \/ \E i \in Ifaces : ReadDone(i)
  \/ \E i \in Ifaces : ReadPacket(i)

HostSpec == Init /\ [][HostNext]_vars

(***************************************************************************)
(* ips on its own.  The argument is drawn from the networks whose mask has *)
(* its zero bits among the low HostBits bits (every bit pattern there,     *)
(* prefix or not), which keeps the loop of ips short; the one step is the  *)
(* call.                                                                   *)
(***************************************************************************)
HostBits == 4

RECURSIVE Pow2(_)
Pow2(k) == IF k = 0 THEN 1 ELSE 2 * Pow2(k - 1)

IpsMasks == {<<255, 255, 255, 256 - Pow2(HostBits) + m>> : m \in 0..(Pow2(HostBits) - 1)}

IpsAddrs == {<<192, 168, 1, 10>>, <<10, 0, 0, 7>>, <<172, 16, 255, 255>>,
             <<255, 255, 255, 255>>, <<0, 0, 0, 0>>}

IpsInputs == {[IP |-> a, Mask |-> m] : a \in IpsAddrs, m \in IpsMasks}

IpsInit ==
  /\ cancelled = FALSE
  /\ proc = "running"
  /\ runPc = "loop"
  /\ runIdx = 0
  /\ wg = 0
  /\ dpc = [i \in Ifaces |-> "unborn"]
  /\ why = [i \in Ifaces |-> None]
  /\ handle = [i \in Ifaces |-> "none"]
  /\ addr = [i \in Ifaces |-> NilNet]
  /\ cands = [i \in Ifaces |-> <<>>]
  /\ idx = [i \in Ifaces |-> 0]
  /\ lpc = [i \in Ifaces |-> "unborn"]
  /\ swept = [i \in Ifaces |-> FALSE]
  /\ cphase = [i \in Ifaces |-> None]
  /\ cn = [i \in Ifaces |-> 0]
  /\ out = NoOut
  /\ sent = [i \in Ifaces |-> <<>>]
  /\ started = [i \in Ifaces |-> NoneStarted]
  /\ pin \in IpsInputs
  /\ pres = NoCall

IpsCall ==
  /\ ~pres.done
  /\ pres' = [done |-> TRUE, out |-> ips(pin)]
  /\ UNCHANGED <<cancelled, proc, runPc, runIdx, wg, dpc, why, handle, addr,
                 cands, idx, lpc, swept, cphase, cn, out, sent, started, pin>>

IpsSpec == IpsInit /\ [][IpsCall]_vars

(***************************************************************************)
(* Properties.                                                             *)
(***************************************************************************)
DriverRunning(i) == dpc[i] \in {"start", "select", "loop", "write"}

ListenerRunning(i) == lpc[i] = "running"

WroteOn(i) == out.kind = "write" /\ out.iface = i

\* the interface was found to have no IPv4 address (addr stays the empty
\* net.IPNet although iface.Addrs() returned addresses, or no address at all)
NoIPv4(i) ==
  /\ dpc[i] \notin {"unborn", "start"}
  /\ why[i] # "addrErr"
  /\ addr[i] = NilNet

\* the interface was opened with an IPv4 network and its Driver has not failed
Healthy(i) == handle[i] = "open" /\ ~ipsPanics(addr[i])

\* C1: when run has returned (wg.Wait() is over), no scanIface and no readARP
\* goroutine of any interface is still running.
C1_RunReturnsAfterAllTasks ==
  runPc = "returned" =>
    \A i \in Ifaces : ~DriverRunning(i) /\ ~ListenerRunning(i)

\* C2: a capture handle is closed only when both the Listener and the Driver
\* of its interface have terminated.
C2_CloseAfterBothStopped ==
  \A i \in Ifaces :
    handle[i] = "closed" => ~ListenerRunning(i) /\ ~DriverRunning(i)

\* C3: whatever fails on another interface, the tasks of a healthy interface
\* keep running, and the process lives, as long as cancellation has not fired.
C3_ErrorsStayLocal ==
  \A b \in Ifaces :
    (~cancelled /\ Healthy(b)) =>
      /\ proc = "running"
      /\ DriverRunning(b)
      /\ ListenerRunning(b)

\* C4: an interface without IPv4 address, or whose capture session fails to
\* open, is skipped: no Listener, no sweep, no write, and the scan goes on.
C4_NoIPv4OrOpenFailureSkipped ==
  \A i \in Ifaces :
    (NoIPv4(i) \/ why[i] = "openErr") =>
      /\ lpc[i] = "unborn"
      /\ handle[i] = "none"
      /\ ~swept[i]
      /\ ~WroteOn(i)
      /\ proc # "crashed"

\* C5: no frame is written to the handle for a candidate whose serialization
\* failed, and the sweep is not aborted by the serialization error.
C5_SerializationErrorSkipsWrite ==
  out.kind = "write" =>
    /\ ~out.serErr
    /\ (~out.writeErr => dpc[out.iface] = "loop")

\* C6: after a write failure the Driver of that interface is stopped for good
\* (no further write, no new sweep), and the process is not ended by it:
\* run does not return before cancellation.
C6_WriteFailureStopsDriverOnly ==
  \A i \in Ifaces :
    why[i] = "writeErr" =>
      /\ dpc[i] = "stopped"
      /\ ~(WroteOn(i) /\ ~out.writeErr)
      /\ (~cancelled => proc # "exited")

\* C7 (safety part): a Driver whose context was cancelled before its first
\* sweep never writes, also in a sweep entered by the tick branch.
C7_NoWriteWhenCancelledFirst ==
  \A i \in Ifaces :
    cphase[i] = "pre" => dpc[i] # "write" /\ idx[i] = 0 /\ ~WroteOn(i)

\* C7: a Driver whose context was cancelled before its first sweep performs
\* zero writes and terminates.
C7_CancelledBeforeSweep ==
  /\ []C7_NoWriteWhenCancelledFirst
  /\ \A i \in Ifaces :
       (cphase[i] = "pre") ~> (~DriverRunning(i) \/ ~Alive)

\* the tick branch was taken after the cancellation, and writeARP returned
\* context.Canceled at its first check
C7_Witness ==
  \E i \in Ifaces :
    cphase[i] = "pre" /\ swept[i] /\ dpc[i] = "stopped" /\ why[i] = "canceled"

\* C8: cancelled after N writes of a sweep, the Driver performs at most one
\* write more in that sweep (N+1 in all, so at most N+1 further ones), and
\* none in any later sweep.
C8_AtMostOneMoreWrite ==
  \A i \in Ifaces :
    /\ cphase[i] = "mid" => idx[i] <= cn[i] + 1 /\ idx[i] - cn[i] <= cn[i] + 1
    /\ (cancelled /\ cphase[i] # "mid") => dpc[i] # "write" /\ idx[i] = 0

\* cancelled after N >= 1 writes, the write whose check had passed was done
C8_Witness ==
  \E i \in Ifaces :
    cphase[i] = "mid" /\ cn[i] >= 1 /\ idx[i] = cn[i] + 1 /\ WroteOn(i)

C10_ListenerStopsOnlyOnCancel ==
  \A i \in Ifaces :
    /\ lpc[i] = "stopped" => cancelled
    /\ (~cancelled /\ lpc[i] # "unborn") => lpc[i] = "running"

\* the Driver had ended on a write failure and frames had been discarded;
\* the Listener stopped once the context was cancelled
C10_Witness ==
  \E i \in Ifaces :
    lpc[i] = "stopped" /\ why[i] = "writeErr" /\ cancelled

\* every Driver and Listener has terminated and run has returned normally
ShutDown ==
  /\ proc = "exited"
  /\ runPc = "returned"
  /\ \A i \in Ifaces : ~DriverRunning(i) /\ ~ListenerRunning(i)

\* C11 (safety part): after the cancellation the process does not end before
\* every task has terminated and run has returned.
C11_NoTaskLeftBehind == (cancelled /\ ~Alive) => ShutDown

\* C11: under fair scheduling, once the cancellation has fired every running
\* Listener and Driver eventually terminates and run eventually returns
\* normally.
C11_GracefulShutdown ==
  /\ []C11_NoTaskLeftBehind
  /\ cancelled ~> ShutDown

\* C18: the WaitGroup counter is never driven below zero (no more wg.Done()
\* calls than wg.Add(1) calls).
C18_CounterNeverNegative == wg >= 0

(***************************************************************************)
(* ips: count, range and order of the result.                              *)
(***************************************************************************)
RECURSIVE PopCount(_)
PopCount(x) == IF x = 0 THEN 0 ELSE (x % 2) + PopCount(x \div 2)

\* number of zero bits of a 4-byte mask
ZeroBits(m) == 32 - (PopCount(m[1]) + PopCount(m[2]) + PopCount(m[3]) + PopCount(m[4]))

\* ones followed by zeros, the zeros within the low 16 bits
IsPrefixMask(m) ==
  /\ ZeroBits(m) <= 16
  /\ m[1] = 255 /\ m[2] = 255
  /\ m[3] * 256 + m[4] = 65536 - Pow2(ZeroBits(m))

InSubnet(ip, n) ==
  And32(Uint32(ip), Uint32(n.Mask)) = And32(Uint32(n.IP), Uint32(n.Mask))

AllOnes == <<255, 255, 255, 255>>

Elements(q) == {q[k] : k \in 1..Len(q)}

\* count, membership and absence of the all-ones address for one call
CountAndSubnet(n, q) ==
  /\ Len(q) = Pow2(ZeroBits(n.Mask)) - 1
  /\ \A ip \in Elements(q) : InSubnet(ip, n) /\ ip # AllOnes

\* C12 as stated: for every mask with at least one zero bit, whatever its bit
\* pattern, ips returns 2^(32 - popcount(mask)) - 1 addresses, all of them in
\* the subnet and none of them the all-ones address.
C12_CountAndSubnetAnyMask ==
  (pres.done /\ ZeroBits(pin.Mask) >= 1) => CountAndSubnet(pin, pres.out)

\* C12 amended: the same for every prefix mask (ones followed by zeros) with
\* at least one zero bit; for any mask the all-ones address is not returned.
C12_CountAndSubnetPrefixMask ==
  /\ (pres.done /\ ZeroBits(pin.Mask) >= 1 /\ IsPrefixMask(pin.Mask))
       => CountAndSubnet(pin, pres.out)
  /\ pres.done => AllOnes \notin Elements(pres.out)

\* a /28 was enumerated: 15 addresses
C12_Witness ==
  /\ pres.done
  /\ IsPrefixMask(pin.Mask) /\ ZeroBits(pin.Mask) = 4
  /\ Len(pres.out) = 15

\* base, base+1, ..., base+span-2 of a prefix mask, from the bytes of the
\* address (the host part lies within the low 16 bits)
ExpectedIps(n) ==
  LET span == Pow2(ZeroBits(n.Mask))
      low  == n.IP[3] * 256 + n.IP[4]
      base == low - (low % span)
  IN [k \in 1..(span - 1) |->
        <<n.IP[1], n.IP[2], (base + k - 1) \div 256, (base + k - 1) % 256>>]

\* C13: for a prefix mask ips returns exactly base, base+1, ..., base+span-2
\* in ascending order (network address first, broadcast address left out);
\* 192.168.1.10/30 gives .8, .9, .10.
C13_PrefixMaskAscending ==
  /\ (pres.done /\ IsPrefixMask(pin.Mask)) => pres.out = ExpectedIps(pin)
  /\ (pres.done /\ pin = Net30)
       => pres.out = << <<192, 168, 1, 8>>, <<192, 168, 1, 9>>, <<192, 168, 1, 10>> >>

\* 192.168.1.10/30 was enumerated, and .11 is not in the result
C13_Witness ==
  /\ pres.done /\ pin = Net30
  /\ Len(pres.out) = 3
  /\ <<192, 168, 1, 11>> \notin Elements(pres.out)

(***************************************************************************)
(* A network without a host part.                                          *)
(***************************************************************************)
\* the handle of interface i was opened on a network whose mask is all ones
OnHostAddress(i) == handle[i] # "none" /\ addr[i].Mask = AllOnes

Prefix(q, k) == SubSeq(q, 1, k)

\* the candidates of the networks an interface can have, written out; a
\* sweep starts with ips(addr) equal to them (first conjunct of SweepOrder)
Candidates(n) ==
  IF n = Net30
  THEN << <<192, 168, 1, 8>>, <<192, 168, 1, 9>>, <<192, 168, 1, 10>> >>
  ELSE IF n = Net31 THEN << <<10, 0, 0, 6>> >>
  ELSE IF n = Net32 THEN <<>>
  ELSE ips(n)

\* the order of a sweep on interface i: writeARP ranges over ips(addr); one
\* WritePacketData call per candidate, each for the candidate ips(addr) has
\* at the call's position, the calls made so far a prefix of the range and,
\* when the sweep has run to its end, all of ips(addr)
SweepOrder(i) ==
  /\ (dpc[i] = "loop" /\ idx[i] = 0) =>
       cands[i] = ips(addr[i]) /\ cands[i] = Candidates(addr[i])
  /\ dpc[i] \in {"loop", "write"} =>
       /\ idx[i] <= Len(cands[i])
       /\ sent[i] = Prefix(cands[i], idx[i])
  /\ (dpc[i] = "select" /\ swept[i] /\ Alive) => sent[i] = Candidates(addr[i])
  /\ WroteOn(i) =>
       /\ out.pos \in 1..Len(Candidates(addr[i]))
       /\ out.tpa = Candidates(addr[i])[out.pos]
       /\ ~out.writeErr =>
            idx[i] = out.pos /\ sent[i] = Prefix(Candidates(addr[i]), out.pos)

\* the bytes handed to the handle are the ARP request for the candidate
CarriesRequest(i) ==
  /\ DecodeARP(out.data).arp
  /\ DecodeARP(out.data).op = ARPRequest
  /\ DecodeARP(out.data).tpa = out.tpa

Opened(i) == handle[i] # "none"

\* the Drivers and Listeners started for the first k interfaces, those
\* whose handle did not open left out
RECURSIVE TasksOf(_)
TasksOf(k) ==
  IF k = 0 THEN 0
  ELSE (IF Opened(k) THEN started[k].drivers + started[k].listeners ELSE 0)
         + TasksOf(k - 1)

\* C16: an interface whose handle opens has exactly one handle, one Listener
\* and one Driver, the Listener is never started again; frames are read and
\* written on the interface's own open handle only; two such interfaces make
\* exactly 4 tasks.
C16_OneHandleTwoTasks ==
  /\ \A i \in Ifaces :
       /\ started[i].opens <= 1 /\ started[i].listeners <= 1
       /\ started[i].drivers <= 1
       /\ Opened(i) => started[i] = [opens |-> 1, listeners |-> 1, drivers |-> 1]
       /\ ~Opened(i) => started[i].opens = 0 /\ started[i].listeners = 0
       /\ WroteOn(i) => Opened(i) /\ out.handle = "open"
       /\ (out.kind = "rx" /\ out.iface = i) => handle[i] = "open"
  /\ TasksOf(NumIfaces) = 2 * Cardinality({i \in Ifaces : Opened(i)})
  /\ Cardinality({i \in Ifaces : Opened(i)}) = 2 => TasksOf(NumIfaces) = 4

\* two interfaces have their handle open, after a sweep on one of them
C16_Witness ==
  \E i, j \in Ifaces :
    /\ i # j /\ handle[i] = "open" /\ handle[j] = "open"
    /\ swept[i] /\ dpc[i] = "select"
    /\ Cardinality({k \in Ifaces : Opened(k)}) = 2
    /\ TasksOf(NumIfaces) = 4

\* C17: every frame the Driver builds has the interface's hardware address
\* as Ethernet source, broadcast as destination, operation request, the
\* interface's own hardware and IPv4 address as sender, zeros as target
\* hardware address and the candidate as target address; decoding the built
\* frame gives back the operation and the sender fields.
C17_RequestFrameFields ==
  \A i \in Ifaces :
    (WroteOn(i) /\ ~out.serErr) =>
      /\ DecodeARP(out.data) =
           [arp |-> TRUE, ethSrc |-> HwOf(i), ethDst |-> BroadcastHw,
            op |-> ARPRequest, sha |-> HwOf(i), spa |-> addr[i].IP,
            tha |-> ZeroHw, tpa |-> out.tpa]
      /\ DecodeARP(SerializeLayers(RequestFrame(i, addr[i], out.tpa))).op = ARPRequest
      /\ DecodeARP(SerializeLayers(RequestFrame(i, addr[i], out.tpa))).sha = HwOf(i)
      /\ DecodeARP(SerializeLayers(RequestFrame(i, addr[i], out.tpa))).spa = addr[i].IP

\* the request for 192.168.1.9 was built and handed to the handle
C17_Witness ==
  \E i \in Ifaces :
    /\ WroteOn(i) /\ ~out.serErr /\ ~out.writeErr
    /\ out.tpa = <<192, 168, 1, 9>>
    /\ Len(out.data) = 42

\* C19: once the cancellation has fired, a Driver performs at most one
\* further write, the one whose check had passed in the sweep the
\* cancellation interrupted; a sweep entered by a tick taken after the
\* cancellation writes nothing.
C19_OneFurtherWrite ==
  /\ (out.kind = "write" /\ out.since > 0) => (out.phase = "mid" /\ out.since = 1)
  /\ \A i \in Ifaces :
       /\ cphase[i] = "mid" => idx[i] - cn[i] \in {0, 1}
       /\ (cancelled /\ cphase[i] \in {"pre", "post"}) => dpc[i] # "write"

\* the cancellation came between the check and the first write of a sweep:
\* that write was done, as the first and only one after the cancellation
C19_Witness ==
  \E i \in Ifaces :
    /\ WroteOn(i) /\ ~out.writeErr
    /\ cancelled /\ out.phase = "mid" /\ out.since = 1
    /\ cn[i] = 0 /\ idx[i] = 1 /\ dpc[i] = "loop"
====
